---- MODULE Spec2Model ----
(***************************************************************************)
(* Model of check_sheet_changes.py: one invocation of main() per run.      *)
(* A run loads last_source_hash.json, fetches and hashes every configured  *)
(* worksheet in order, compares each digest with the loaded one, posts one *)
(* Google Chat card when something changed and rewrites the hash file.     *)
(* The spreadsheet, the webhook, the clock and the file system are the     *)
(* environment: their answers are nondeterministic inputs of the steps.    *)
(***************************************************************************)
EXTENDS Integers, Sequences, FiniteSets, TLC

\* ------------------------------------------------------------------ bounds
MaxLen == 2          \* longest SOURCE_WORKSHEETS list explored
NumContents == 2     \* distinct contents a worksheet can hold
NumTimes == 1        \* distinct readings of datetime.utcnow()

\* ------------------------------------------------------------- value space
\* worksheet names a SOURCE_WORKSHEETS value can carry after split/strip
WorksheetNames == {"Eggs", "last_checked"}

\* the key main() adds to current_hashes after the loop
LastCheckedKey == "last_checked"

Contents == 1..NumContents
Times == 1..NumTimes

\* Python's None, the result of dict.get on a missing key
None == <<"None", 0>>

\* hashlib.md5(str(all_values).encode('utf-8')).hexdigest(): 32 hex digits,
\* one digest per content
MD5(content) == <<"md5", content>>

\* datetime.utcnow().isoformat(): never a string of 32 hex digits
IsoFormat(t) == <<"iso", t>>

\* the empty dict {}
EmptyDict == [k \in {} |-> None]

\* d.get(k)
DictGet(d, k) == IF k \in DOMAIN d THEN d[k] ELSE None

\* d[k] = v
DictSet(d, k, v) == [x \in (DOMAIN d) \cup {k} |-> IF x = k THEN v ELSE d[x]]

\* values of SOURCE_WORKSHEETS that pass "if not source_worksheets"
RECURSIVE SeqsUpTo(_)
SeqsUpTo(n) ==
    IF n = 0 THEN {<< >>}
    ELSE LET shorter == SeqsUpTo(n - 1)
         IN  shorter \cup {Append(s, w) : s \in {q \in shorter : Len(q) = n - 1},
                                          w \in WorksheetNames}

Configs == SeqsUpTo(MaxLen) \ {<< >>}

\* contents of last_source_hash.json
\*   missing : os.path.exists is false
\*   corrupt : json.load raises (not JSON, truncated, unreadable)
\*   nondict : valid JSON that is not an object (list, string, number, null)
\*   dict    : a JSON object
MissingFile == [kind |-> "missing", data |-> EmptyDict]
CorruptFile == [kind |-> "corrupt", data |-> EmptyDict]
NonDictFile == [kind |-> "nondict", data |-> EmptyDict]
DictFile(d) == [kind |-> "dict", data |-> d]

SetOf(s) == {s[j] : j \in 1..Len(s)}

VARIABLES
    pc,                 \* position of the process: idle, fetch, stamp, notify,
                        \* save, returned, exited
    worksheet_names,    \* main: worksheet_names
    idx,                \* main: position of the for loop (next name to fetch)
    last_hashes,        \* main: last_hashes, [isdict, data]
    current_hashes,     \* main: current_hashes
    changed_worksheets, \* main: changed_worksheets
    card,               \* worksheet names listed in the card that was posted
    delivery,           \* answer to requests.post: none, 200, non200, exception
    result,             \* return value of main(): none, True, False
    status,             \* process exit status, -1 while none
    cause,              \* which handler ended the process
    events,             \* I/O calls of the current run, in order
    digests,            \* history: digest returned by each fetch of the run
    hash_file,          \* last_source_hash.json
    sheet,              \* the spreadsheet: worksheet name -> content
    file_at_start,      \* history: hash file when the run began
    edited,             \* history: a content changed since the previous run began
    repeat              \* history: this run repeats a saved run, nothing edited

vars == << pc, worksheet_names, idx, last_hashes, current_hashes,
           changed_worksheets, card, delivery, result, status, cause, events,
           digests, hash_file, sheet, file_at_start, edited, repeat >>

\* ------------------------------------------------------ functions of the code

\* load_last_hashes(): the file's JSON value, {} when missing or unparsable
load_last_hashes(f) ==
    IF f.kind = "dict" THEN [isdict |-> TRUE, data |-> f.data]
    ELSE IF f.kind = "nondict" THEN [isdict |-> FALSE, data |-> EmptyDict]
    ELSE [isdict |-> TRUE, data |-> EmptyDict]

\* get_worksheet_hash(): the digest, or sys.exit(1) on any fetch error
get_worksheet_hash_noexit(content, answer) ==
    IF answer = "ok" THEN [exit |-> FALSE, hash |-> MD5(content)]
    ELSE [exit |-> FALSE, hash |-> None]

get_worksheet_hash(content, answer) ==
    IF answer = "ok" THEN [exit |-> FALSE, hash |-> MD5(content)]
    ELSE [exit |-> TRUE, hash |-> None]

\* "if last_hash != current_hash"
IsChanged_never(last_hash, current_hash) == FALSE

IsChanged(last_hash, current_hash) == last_hash # current_hash

\* changed_worksheets.append(ws_name)
AppendChanged_front(changed, ws_name) == <<ws_name>> \o changed

AppendChanged(changed, ws_name) == Append(changed, ws_name)

\* "if changed_worksheets:"
ShouldNotify_always(changed) == TRUE

ShouldNotify(changed) == changed # << >>

\* send_google_chat_card(): True on status 200, False otherwise; the
\* except clause turns a transport exception into False
send_google_chat_card_raises(answer) ==
    [sent |-> answer = "200", raised |-> answer = "exception"]

send_google_chat_card(answer) ==
    [sent |-> answer = "200", raised |-> FALSE]

\* save_hashes(): what the write leaves in the file.  open(..., 'w')
\* truncates before json.dump writes, so a failure after the open leaves an
\* unparsable file; a failure of the open leaves the file as it was.
FileAfterSave(f, hashes_data, answer) ==
    IF answer = "ok" THEN DictFile(hashes_data)
    ELSE IF answer = "open_fails" THEN f
    ELSE CorruptFile

\* save_hashes(): sys.exit(1) when the write raised
save_hashes_exits_swallow(answer) == FALSE

save_hashes_exits(answer) == answer # "ok"

\* ------------------------------------------------------------------- Init
Init ==
    /\ pc = "idle"
    /\ worksheet_names = << >>
    /\ idx = 1
    /\ last_hashes = [isdict |-> TRUE, data |-> EmptyDict]
    /\ current_hashes = EmptyDict
    /\ changed_worksheets = << >>
    /\ card = << >>
    /\ delivery = "none"
    /\ result = "none"
    /\ status = -1
    /\ cause = "none"
    /\ events = << >>
    /\ digests = << >>
    /\ hash_file \in {MissingFile, CorruptFile, NonDictFile}
    /\ sheet \in [WorksheetNames -> Contents]
    /\ file_at_start = hash_file
    /\ edited = FALSE
    /\ repeat = FALSE

\* ---------------------------------------------------------------- actions

\* main(), lines 177-202, when a required environment variable is unset or
\* empty, or get_credentials() fails: sys.exit(1) before the file is read
ConfigError ==
    /\ pc \in {"idle", "returned", "exited"}
    /\ pc' = "exited"
    /\ status' = 1
    /\ cause' = "config"
    /\ worksheet_names' = << >>
    /\ idx' = 1
    /\ last_hashes' = [isdict |-> TRUE, data |-> EmptyDict]
    /\ current_hashes' = EmptyDict
    /\ changed_worksheets' = << >>
    /\ card' = << >>
    /\ delivery' = "none"
    /\ result' = "none"
    /\ events' = << >>
    /\ digests' = << >>
    /\ file_at_start' = hash_file
    /\ edited' = FALSE
    /\ repeat' = FALSE
    /\ UNCHANGED << hash_file, sheet >>

\* main(), lines 177-209, with a valid environment: parse SOURCE_WORKSHEETS,
\* authenticate, load the previous hashes, start the loop
Begin ==
    /\ pc \in {"idle", "returned", "exited"}
    /\ \E source_worksheets \in Configs :
        /\ worksheet_names' = source_worksheets
        /\ repeat' = (pc = "returned" /\ ~edited
                      /\ source_worksheets = worksheet_names)
    /\ pc' = "fetch"
    /\ status' = -1
    /\ cause' = "none"
    /\ idx' = 1
    /\ last_hashes' = load_last_hashes(hash_file)
    /\ current_hashes' = EmptyDict
    /\ changed_worksheets' = << >>
    /\ card' = << >>
    /\ delivery' = "none"
    /\ result' = "none"
    /\ events' = << <<"load", "">> >>
    /\ digests' = << >>
    /\ file_at_start' = hash_file
    /\ edited' = FALSE
    /\ UNCHANGED << hash_file, sheet >>

\* main(), lines 211-218: one iteration of the for loop
Fetch ==
    /\ pc = "fetch"
    /\ LET ws_name == worksheet_names[idx]
       IN \E answer \in {"ok", "notfound", "error"} :
           LET got == get_worksheet_hash(sheet[ws_name], answer)
               fetched == Append(events,
                            <<IF answer = "ok" THEN "fetch_ok" ELSE "fetch_fail",
                              ws_name>>)
           IN  /\ events' = fetched
               /\ IF got.exit
                  THEN \* sys.exit(1) inside get_worksheet_hash
                       /\ pc' = "exited"
                       /\ status' = 1
                       /\ cause' = "fetch"
                       /\ UNCHANGED << current_hashes, changed_worksheets, idx,
                                       digests >>
                  ELSE /\ digests' = Append(digests, got.hash)
                       /\ current_hashes' = DictSet(current_hashes, ws_name, got.hash)
                       /\ IF ~last_hashes.isdict
                          THEN \* last_hashes.get raises AttributeError, caught
                               \* by main's "except Exception": sys.exit(1)
                               /\ pc' = "exited"
                               /\ status' = 1
                               /\ cause' = "unexpected"
                               /\ UNCHANGED << changed_worksheets, idx >>
                          ELSE LET last_hash == DictGet(last_hashes.data, ws_name)
                               IN  /\ changed_worksheets' =
                                        IF IsChanged(last_hash, got.hash)
                                        THEN AppendChanged(changed_worksheets, ws_name)
                                        ELSE changed_worksheets
                                   /\ idx' = idx + 1
                                   /\ pc' = IF idx = Len(worksheet_names)
                                            THEN "stamp" ELSE "fetch"
                                   /\ UNCHANGED << status, cause >>
    /\ UNCHANGED << worksheet_names, last_hashes, card, delivery, result,
                    hash_file, sheet, file_at_start, edited, repeat >>

\* main(), lines 221-224: add the timestamp, choose the branch
Stamp ==
    /\ pc = "stamp"
    /\ \E t \in Times :
        current_hashes' = DictSet(current_hashes, LastCheckedKey, IsoFormat(t))
    /\ pc' = IF ShouldNotify(changed_worksheets) THEN "notify" ELSE "save"
    /\ UNCHANGED << worksheet_names, idx, last_hashes, changed_worksheets, card,
                    delivery, result, status, cause, events, digests, hash_file,
                    sheet, file_at_start, edited, repeat >>

\* main(), line 228: send_google_chat_card(); its return value is not used
Notify ==
    /\ pc = "notify"
    /\ \E answer \in {"200", "non200", "exception"} :
        LET out == send_google_chat_card(answer)
        IN  /\ card' = changed_worksheets
            /\ delivery' = answer
            /\ events' = Append(events, <<"post", "">>)
            /\ IF out.raised
               THEN /\ pc' = "exited"
                    /\ status' = 1
                    /\ cause' = "unexpected"
               ELSE /\ pc' = "save"
                    /\ UNCHANGED << status, cause >>
    /\ UNCHANGED << worksheet_names, idx, last_hashes, current_hashes,
                    changed_worksheets, result, digests, hash_file, sheet,
                    file_at_start, edited, repeat >>

\* main(), lines 231-233 and 238-240: save_hashes(current_hashes), return
Save ==
    /\ pc = "save"
    /\ \E answer \in {"ok", "open_fails", "write_fails"} :
        /\ hash_file' = FileAfterSave(hash_file, current_hashes, answer)
        /\ events' = Append(events, <<"save", answer>>)
        /\ IF save_hashes_exits(answer)
           THEN /\ pc' = "exited"
                /\ status' = 1
                /\ cause' = "save"
                /\ result' = "none"
           ELSE /\ pc' = "returned"
                /\ status' = 0
                /\ cause' = "none"
                /\ result' = IF changed_worksheets # << >> THEN "True" ELSE "False"
    /\ UNCHANGED << worksheet_names, idx, last_hashes, current_hashes,
                    changed_worksheets, card, delivery, digests, sheet,
                    file_at_start, edited, repeat >>

\* the environment: somebody edits a worksheet
Edit ==
    /\ \E n \in WorksheetNames, c \in Contents :
        /\ c # sheet[n]
        /\ sheet' = [sheet EXCEPT ![n] = c]
    /\ edited' = TRUE
    /\ repeat' = FALSE
    /\ UNCHANGED << pc, worksheet_names, idx, last_hashes, current_hashes,
                    changed_worksheets, card, delivery, result, status, cause,
                    events, digests, hash_file, file_at_start >>

Next == ConfigError \/ Begin \/ Fetch \/ Stamp \/ Notify \/ Save \/ Edit

Spec == Init /\ [][Next]_vars

\* ------------------------------------------------- vocabulary of the claims

\* number of events of one kind in the current run
Count(kind) == Cardinality({j \in 1..Len(events) : events[j][1] = kind})

\* HTTP delivery attempts of the current run
Posts == Count("post")

\* a run got past the configuration checks
Running == worksheet_names # << >>

\* the for loop went through every configured worksheet: the ChangeSet exists
LoopDone == Running /\ idx = Len(worksheet_names) + 1

\* the process is over
Ended == pc \in {"returned", "exited"}

\* the sub-list of the first n names whose prior entry is missing or differs
\* from the digest fetched at that position
RECURSIVE ExpectedChanges(_, _, _, _)
ExpectedChanges(ns, ds, prior, n) ==
    IF n = 0 THEN << >>
    ELSE LET rest == ExpectedChanges(ns, ds, prior, n - 1)
         IN  IF ns[n] \notin DOMAIN prior \/ prior[ns[n]] # ds[n]
             THEN Append(rest, ns[n])
             ELSE rest

\* the digest fetched last for a configured name in the current run
LastDigest(n) ==
    LET at == {j \in 1..Len(digests) : worksheet_names[j] = n}
    IN  digests[CHOOSE j \in at : \A q \in at : q <= j]

\* the digest a file stores for a name, None when it stores none
Stored(f, n) == IF f.kind = "dict" THEN DictGet(f.data, n) ELSE None

FailedDelivery == delivery \in {"non200", "exception"}

\* ------------------------------------------------------------------ claims

\* C1: idempotence.  A run that repeats a run which returned after a
\* successful save, with the same worksheet list and no content change in
\* between, computes an empty ChangeSet, makes no delivery attempt and
\* returns False.
C1_Idempotent ==
    (repeat /\ LoopDone) =>
        /\ changed_worksheets = << >>
        /\ Posts = 0
        /\ pc # "notify"
        /\ (pc = "returned" => result = "False")

C3_ChangeSet ==
    LoopDone =>
        /\ changed_worksheets =
              ExpectedChanges(worksheet_names, digests, last_hashes.data,
                              Len(worksheet_names))
        /\ \A n \in SetOf(worksheet_names) :
              n \notin DOMAIN last_hashes.data => n \in SetOf(changed_worksheets)

C3_Witness ==
    /\ LoopDone
    /\ Len(worksheet_names) = 2
    /\ LastCheckedKey \notin SetOf(worksheet_names)
    /\ worksheet_names[1] \in DOMAIN last_hashes.data
    /\ worksheet_names[2] \in DOMAIN last_hashes.data
    /\ Len(changed_worksheets) = 1

\* C4: a failed fetch ends the run at once with exit status 1: it is the
\* last I/O call of the run, no delivery attempt is made, save_hashes is not
\* called and the hash file is as it was when the run began.
C4_FetchFailureAborts ==
    Count("fetch_fail") > 0 =>
        /\ pc = "exited"
        /\ status = 1
        /\ result = "none"
        /\ Count("fetch_fail") = 1
        /\ events[Len(events)][1] = "fetch_fail"
        /\ events[Len(events)][2] = worksheet_names[idx]
        /\ Count("fetch_ok") = idx - 1
        /\ Posts = 0
        /\ Count("save") = 0
        /\ hash_file = file_at_start

C4_Witness ==
    /\ pc = "exited"
    /\ cause = "fetch"
    /\ Len(worksheet_names) = 2
    /\ idx = 2
    /\ changed_worksheets # << >>
    /\ file_at_start.kind = "dict"
    /\ hash_file = file_at_start

\* C5: when the hash file is missing or cannot be read as a mapping, the run
\* does not fail on it: every configured worksheet is in the ChangeSet, a
\* delivery attempt is made, and a run whose fetches and save succeed
\* returns True.
C5_LoadRecovery ==
    (Running /\ file_at_start.kind \in {"missing", "corrupt", "nondict"}) =>
        /\ cause # "unexpected"
        /\ (LoopDone => changed_worksheets = worksheet_names)
        /\ (pc = "save" => Posts = 1)
        /\ (pc = "returned" => result = "True" /\ Posts = 1)

\* C6: after a run that returned, the hash file's keys are exactly the
\* configured worksheet names plus last_checked, and each configured name
\* maps to the digest computed for it in this run.
C6_StateReplaced ==
    pc = "returned" =>
        /\ hash_file.kind = "dict"
        /\ DOMAIN hash_file.data = SetOf(worksheet_names) \cup {LastCheckedKey}
        /\ \A n \in SetOf(worksheet_names) : hash_file.data[n] = LastDigest(n)

\* C7: delivery attempts per run: never more than one; a run that ended made
\* exactly one when its ChangeSet is non-empty and none when it is empty or
\* was never completed.
C7_DeliveryAttempts ==
    /\ Posts <= 1
    /\ (pc = "save" \/ Ended) =>
          Posts = IF LoopDone /\ changed_worksheets # << >> THEN 1 ELSE 0

C7_Witness ==
    /\ pc = "returned"
    /\ delivery = "non200"
    /\ Posts = 1
    /\ Count("save") = 1

\* C8: a failed write in save_hashes ends the process with exit status 1 and
\* main() returns neither True nor False, in both branches.
C8_SaveFailureFatal ==
    (Count("save") > 0 /\ events[Len(events)][2] # "ok") =>
        /\ pc = "exited"
        /\ status = 1
        /\ result = "none"

C8_Witness ==
    /\ pc = "exited"
    /\ cause = "save"
    /\ changed_worksheets = << >>
    /\ events[Len(events)] = <<"save", "write_fails">>
    /\ file_at_start.kind = "dict"

\* C9: order of side effects: the file is read once, first; worksheets are
\* fetched in configured order; a run whose fetches all succeeded calls
\* save_hashes exactly once, as its last I/O call, after the last fetch and
\* the delivery attempt; no run writes before or during fetching.
C9_SideEffectOrder ==
    Running =>
        /\ events[1][1] = "load"
        /\ Count("load") = 1
        /\ \A j \in 2..Len(events) :
              events[j][1] \in {"fetch_ok", "fetch_fail"} =>
                  /\ j - 1 <= Len(worksheet_names)
                  /\ events[j][2] = worksheet_names[j - 1]
        /\ Count("save") <= 1
        /\ \A j \in 1..Len(events) : events[j][1] = "save" => j = Len(events)
        /\ (Ended /\ Count("fetch_ok") = Len(worksheet_names)) =>
              Count("save") = 1

\* C10 as stated: a run that makes no delivery attempt leaves every stored
\* digest of a configured worksheet unchanged, and a digest is added or
\* changed only after a delivery attempt listing the worksheet.
C10_Original ==
    [][ \A n \in SetOf(worksheet_names) :
          /\ (Stored(hash_file', n) # Stored(hash_file, n)
              /\ Stored(hash_file', n) # None)
                 => (Posts = 1 /\ n \in SetOf(card))
          /\ (Posts = 0 /\ Stored(hash_file, n) # None)
                 => Stored(hash_file', n) = Stored(hash_file, n)
      ]_vars

\* C10 amended: a digest of a configured worksheet is added or changed to a
\* different value only by a run that earlier made a delivery attempt
\* listing that worksheet; a run without a delivery attempt leaves every
\* stored digest of a configured worksheet unchanged, unless its save_hashes
\* write fails after the file was opened, which leaves the file unparsable
\* and every digest lost.
C10_Amended ==
    [][ \A n \in SetOf(worksheet_names) :
          /\ (Stored(hash_file', n) # Stored(hash_file, n)
              /\ Stored(hash_file', n) # None)
                 => (Posts = 1 /\ n \in SetOf(card))
          /\ (Posts = 0 /\ Stored(hash_file, n) # None)
                 => \/ Stored(hash_file', n) = Stored(hash_file, n)
                    \/ /\ hash_file' = CorruptFile
                       /\ pc' = "exited"
                       /\ events'[Len(events')] = <<"save", "write_fails">>
      ]_vars

C10_Witness ==
    /\ pc = "exited"
    /\ cause = "save"
    /\ Posts = 0
    /\ file_at_start.kind = "dict"
    /\ \E n \in SetOf(worksheet_names) : Stored(file_at_start, n) # None
    /\ hash_file = CorruptFile

====
